---- MODULE Spec2Model ----
(***************************************************************************)
(* updatewatch: poll a list of update checks, diff their output against    *)
(* the shelved result of the previous run, shelve the reconciled list.     *)
(*                                                                         *)
(* Text is a sequence of one-character strings; a line is such a sequence  *)
(* without "\n".  A mapping (dict) is a sequence of <<key, value>> pairs   *)
(* in insertion order.  The sha1 digest of a pickle is represented by the  *)
(* pickled bytes themselves (the digest is taken to be injective).         *)
(***************************************************************************)
EXTENDS Integers, Sequences, FiniteSets, TLC

VARIABLES
    pc,         \* position of main(): idle, check, starting, show_all, diff,
                \* done, crashed
    updates,    \* the check list loaded by get_updates
    procs,      \* per check: state of its execute() generator / OS process
    outs,       \* per check: what its process printed and exited with
    exception,  \* the exception that ended main, if any
    idx,        \* loop index of the loop main() is in
    key,        \* get_data: key
    existing,   \* get_data: existing
    results,    \* Results pulled from the check() generator so far
    cur,        \* difference: the current record pulled and not yet compared
    data,       \* difference: data
    returned,   \* value returned by get_data
    database,   \* the shelf: key -> list of Results
    runs,       \* number of invocations of main() so far
    last,       \* history: the last get_data (key, results, cached items)
    call,       \* pure-function harness: the call (name and arguments)
    ret,        \* pure-function harness: its result
    options,    \* main: the parsed command line (list: --list was given)
    config_file, \* main: the configuration populate has returned
    mailed      \* the messages email_new has sent in the last run

vars == <<pc, updates, procs, outs, exception, idx, key, existing, results, cur,
          data, returned, database, runs, last, call, ret, options,
          config_file, mailed>>

(***************************************************************************)
(* Bounds                                                                  *)
(***************************************************************************)
MaxRuns == 3

MaxLines == 3

\* the largest number of checks of a check list that is hashed
MaxChecks == 2

\* the largest number of Results that are mailed
MaxResults == 2

(***************************************************************************)
(* Text helpers (str.strip, str.splitlines)                                *)
(***************************************************************************)
Whitespace == {" ", "\t", "\n"}

RECURSIVE lstrip(_)
lstrip(s) ==
    IF s # <<>> /\ Head(s) \in Whitespace THEN lstrip(Tail(s)) ELSE s

RECURSIVE rstrip(_)
rstrip(s) ==
    IF s # <<>> /\ s[Len(s)] \in Whitespace
    THEN rstrip(SubSeq(s, 1, Len(s) - 1))
    ELSE s

strip(s) == rstrip(lstrip(s))

\* splitlines: the lines of s, a final "\n" opening no further line
RECURSIVE splitlines_from(_, _, _)
splitlines_from(s, line, acc) ==
    IF s = <<>>
    THEN IF line = <<>> THEN acc ELSE Append(acc, line)
    ELSE IF Head(s) = "\n"
         THEN splitlines_from(Tail(s), <<>>, Append(acc, line))
         ELSE splitlines_from(Tail(s), Append(line, Head(s)), acc)

splitlines(s) == splitlines_from(s, <<>>, <<>>)

set(seq) == {seq[i] : i \in 1..Len(seq)}

(***************************************************************************)
(* Results                                                                 *)
(***************************************************************************)
None == [isNone |-> TRUE]

TimedOutLine == <<"ERROR: command timed out">>

TimedOutStatus == 124

make_default ==
    [description |-> "",
     header      |-> None,
     new         |-> {},
     status      |-> 0,
     stderr      |-> <<>>,
     stdout      |-> <<>>]

(***************************************************************************)
(* reporters.Terminal.clean: re.sub(r'\x1b[^m]*m', '', msg).  "ESC" is the *)
(* escape character.                                                       *)
(***************************************************************************)
RECURSIVE after_m(_)
after_m(s) ==
    IF s = <<>> THEN [found |-> FALSE, rest |-> <<>>]
    ELSE IF Head(s) = "m" THEN [found |-> TRUE, rest |-> Tail(s)]
    ELSE after_m(Tail(s))

RECURSIVE clean(_)
clean(msg) ==
    IF msg = <<>> THEN <<>>
    ELSE IF Head(msg) = "ESC" /\ after_m(Tail(msg)).found
         THEN clean(after_m(Tail(msg)).rest)
         ELSE <<Head(msg)>> \o clean(Tail(msg))

\* str.split(): the maximal runs of non-whitespace characters
RECURSIVE split_from(_, _, _)
split_from(s, field, acc) ==
    IF s = <<>>
    THEN IF field = <<>> THEN acc ELSE Append(acc, field)
    ELSE IF Head(s) \in Whitespace
         THEN split_from(Tail(s), <<>>,
                         IF field = <<>> THEN acc ELSE Append(acc, field))
         ELSE split_from(Tail(s), Append(field, Head(s)), acc)

split(s) == split_from(s, <<>>, <<>>)

(***************************************************************************)
(* distutils.version.StrictVersion: major.minor[.patch][{a|b}N]            *)
(***************************************************************************)
DigitChars == <<"0", "1", "2", "3", "4", "5", "6", "7", "8", "9">>

IsDigit(c) == \E i \in 1..Len(DigitChars) : DigitChars[i] = c

DigitVal(c) == (CHOOSE i \in 1..Len(DigitChars) : DigitChars[i] = c) - 1

\* the longest run of digits at the head of s, as a number
RECURSIVE read_number(_, _, _)
read_number(s, n, any) ==
    IF s # <<>> /\ IsDigit(Head(s))
    THEN read_number(Tail(s), 10 * n + DigitVal(Head(s)), TRUE)
    ELSE [ok |-> any, n |-> n, rest |-> s]

StrictVersion(vstring) ==
    LET bad   == [valid |-> FALSE]
        major == read_number(vstring, 0, FALSE)
    IN  IF ~major.ok \/ major.rest = <<>> \/ Head(major.rest) # "."
        THEN bad
        ELSE
        LET minor == read_number(Tail(major.rest), 0, FALSE)
        IN  IF ~minor.ok THEN bad
            ELSE
            LET hasPatch == minor.rest # <<>> /\ Head(minor.rest) = "."
                patch    == IF hasPatch
                            THEN read_number(Tail(minor.rest), 0, FALSE)
                            ELSE [ok |-> TRUE, n |-> 0, rest |-> minor.rest]
            IN  IF ~patch.ok THEN bad
                ELSE IF patch.rest = <<>>
                THEN [valid |-> TRUE,
                      version |-> <<major.n, minor.n, patch.n>>,
                      pre |-> FALSE, letter |-> 0, num |-> 0]
                ELSE IF Head(patch.rest) \notin {"a", "b"} THEN bad
                ELSE
                LET num == read_number(Tail(patch.rest), 0, FALSE)
                IN  IF ~num.ok \/ num.rest # <<>> THEN bad
                    ELSE [valid |-> TRUE,
                          version |-> <<major.n, minor.n, patch.n>>,
                          pre |-> TRUE,
                          letter |-> IF Head(patch.rest) = "a" THEN 0 ELSE 1,
                          num |-> num.n]

TupleLess(s, t) ==
    \E i \in 1..Len(s) :
        /\ s[i] < t[i]
        /\ \A j \in 1..(i - 1) : s[j] = t[j]

\* StrictVersion.__lt__ (StrictVersion._cmp(self, other) < 0)
VersionLess(v, w) ==
    IF v.version # w.version THEN TupleLess(v.version, w.version)
    ELSE IF ~v.pre /\ ~w.pre THEN FALSE
    ELSE IF v.pre /\ ~w.pre THEN TRUE
    ELSE IF ~v.pre /\ w.pre THEN FALSE
    ELSE TupleLess(<<v.letter, v.num>>, <<w.letter, w.num>>)

(***************************************************************************)
(* make_result                                                             *)
(***************************************************************************)
NodeJsDescription == "Node.js modules"

Raised(error) == [raised |-> TRUE, error |-> error]

Returned(value) == [raised |-> FALSE, value |-> value]

\* the loop over all_module_lines: the rows that are outdated, or the
\* ValueError of the unpacking or of StrictVersion
RECURSIVE node_js_modules(_, _)
node_js_modules(all_module_lines, modules) ==
    IF all_module_lines = <<>> THEN Returned(modules)
    ELSE
    LET module_line == Head(all_module_lines)
        fields      == split(clean(module_line))
    IN  IF Len(fields) # 4 THEN Raised("ValueError")
        ELSE
        LET current == StrictVersion(fields[2])
            wanted  == StrictVersion(fields[3])
        IN  IF ~current.valid \/ ~wanted.valid THEN Raised("ValueError")
            ELSE node_js_modules(Tail(all_module_lines),
                     IF VersionLess(current, wanted)
                     THEN Append(modules, module_line)
                     ELSE modules)

\* variant: the timeout line is appended for every failed command
make_result_append_on_failure(description, stdout_text, stderr_text, status) ==
    LET stderr0 == splitlines(strip(stderr_text))
        stdout0 == splitlines(strip(stdout_text))
        stderr  == IF status # 0
                   THEN Append(stderr0, TimedOutLine)
                   ELSE stderr0
        nodejs  == description = NodeJsDescription /\ stdout0 # <<>>
        modules == IF nodejs /\ Len(stdout0) >= 2
                   THEN node_js_modules(Tail(stdout0), <<>>)
                   ELSE Returned(<<>>)
        header  == IF nodejs /\ Len(stdout0) >= 2
                   THEN [isNone |-> FALSE, line |-> stdout0[1]]
                   ELSE None
    IN  IF modules.raised THEN modules
        ELSE Returned(
            [description |-> description,
             header      |-> header,
             new         |-> {},
             status      |-> status,
             stderr      |-> stderr,
             stdout      |-> IF nodejs THEN modules.value ELSE stdout0])

\* the first occurrences of the lines of a list
RECURSIVE first_occurrences(_, _)
first_occurrences(lines, acc) ==
    IF lines = <<>> THEN acc
    ELSE first_occurrences(Tail(lines),
             IF \E i \in 1..Len(acc) : acc[i] = Head(lines)
             THEN acc ELSE Append(acc, Head(lines)))

\* variant: the lines of stdout are deduplicated
make_result_deduplicated(description, stdout_text, stderr_text, status) ==
    LET stderr0 == splitlines(strip(stderr_text))
        stdout0 == first_occurrences(splitlines(strip(stdout_text)), <<>>)
        stderr  == IF status = TimedOutStatus
                   THEN Append(stderr0, TimedOutLine)
                   ELSE stderr0
        nodejs  == description = NodeJsDescription /\ stdout0 # <<>>
        modules == IF nodejs /\ Len(stdout0) >= 2
                   THEN node_js_modules(Tail(stdout0), <<>>)
                   ELSE Returned(<<>>)
        header  == IF nodejs /\ Len(stdout0) >= 2
                   THEN [isNone |-> FALSE, line |-> stdout0[1]]
                   ELSE None
    IN  IF modules.raised THEN modules
        ELSE Returned(
            [description |-> description,
             header      |-> header,
             new         |-> {},
             status      |-> status,
             stderr      |-> stderr,
             stdout      |-> IF nodejs THEN modules.value ELSE stdout0])

make_result(description, stdout_text, stderr_text, status) ==
    LET stderr0 == splitlines(strip(stderr_text))
        stdout0 == splitlines(strip(stdout_text))
        stderr  == IF status = TimedOutStatus
                   THEN Append(stderr0, TimedOutLine)
                   ELSE stderr0
        nodejs  == description = NodeJsDescription /\ stdout0 # <<>>
        modules == IF nodejs /\ Len(stdout0) >= 2
                   THEN node_js_modules(Tail(stdout0), <<>>)
                   ELSE Returned(<<>>)
        header  == IF nodejs /\ Len(stdout0) >= 2
                   THEN [isNone |-> FALSE, line |-> stdout0[1]]
                   ELSE None
    IN  IF modules.raised THEN modules
        ELSE Returned(
            [description |-> description,
             header      |-> header,
             new         |-> {},
             status      |-> status,
             stderr      |-> stderr,
             stdout      |-> IF nodejs THEN modules.value ELSE stdout0])

(***************************************************************************)
(* difference                                                              *)
(***************************************************************************)
\* variant: the previous record is looked up by description
paired_previous_by_description(new, old, i) ==
    IF \E j \in 1..Len(old) : old[j].description = new[i].description
    THEN old[CHOOSE j \in 1..Len(old) :
                 /\ old[j].description = new[i].description
                 /\ \A k \in 1..(j - 1) :
                        old[k].description # new[i].description]
    ELSE make_default

\* zip_longest(new, old) at position i: the previous record paired with
\* new[i], the default record where old has none
paired_previous(new, old, i) ==
    IF i > Len(old) THEN make_default ELSE old[i]

\* variant: the fallback record carries the status and stderr of current
difference_record_keeps_error(current, previous) ==
    LET new == set(current.stdout) \ set(previous.stdout)
    IN  IF new # {} \/ current.stderr = <<>>
        THEN [current EXCEPT !.new = new]
        ELSE [previous EXCEPT !.description = current.description,
                              !.new = {},
                              !.status = current.status,
                              !.stderr = current.stderr]

\* variant: the items are compared with previous['new']
difference_record_minus_new(current, previous) ==
    LET new == set(current.stdout) \ previous.new
    IN  IF new # {} \/ current.stderr = <<>>
        THEN [current EXCEPT !.new = new]
        ELSE [previous EXCEPT !.description = current.description,
                              !.new = {}]

\* variant: the operands of the set difference are exchanged
difference_record_swapped(current, previous) ==
    LET new == set(previous.stdout) \ set(current.stdout)
    IN  IF new # {} \/ current.stderr = <<>>
        THEN [current EXCEPT !.new = new]
        ELSE [previous EXCEPT !.description = current.description,
                              !.new = {}]

\* the body of the loop for one pair (current, previous)
difference_record(current, previous) ==
    LET new == set(current.stdout) \ set(previous.stdout)
    IN  IF new # {} \/ current.stderr = <<>>
        THEN [current EXCEPT !.new = new]
        ELSE [previous EXCEPT !.description = current.description,
                              !.new = {}]

\* the loop from position i on; a position that only old has gives
\* current = None, and current['description'] raises TypeError
RECURSIVE difference_from(_, _, _, _)
difference_from(new, old, i, acc) ==
    IF i > Len(new) /\ i > Len(old) THEN Returned(acc)
    ELSE IF i > Len(new) THEN Raised("TypeError")
    ELSE difference_from(new, old, i + 1,
             Append(acc, difference_record(new[i],
                                           paired_previous(new, old, i))))

difference(new, old) == difference_from(new, old, 1, <<>>)

(***************************************************************************)
(* Objects loaded from YAML: strings, mappings, lists                      *)
(***************************************************************************)
Str(v) == [type |-> "str", value |-> v]

Dict(items) == [type |-> "dict", items |-> items]

List(elems) == [type |-> "list", elems |-> elems]

Tuple(elems) == [type |-> "tuple", elems |-> elems]

\* a string object that is in the structure more than once (a YAML anchor
\* and its aliases give one object): id tells the objects apart
Shared(v, id) == [type |-> "str", value |-> v, id |-> id]

Bool(b) == [type |-> "bool", value |-> b]

Number(n) == [type |-> "int", value |-> n]

NoneType == [type |-> "NoneType", value |-> "None"]

\* an instance of a class without __hash__ and without __iter__ (built by
\* a python/object tag of yaml.load); v is its str()
Opaque(v) == [type |-> "object", value |-> v]

dict_keys(d) == {d.items[i][1] : i \in 1..Len(d.items)}

dict_get(d, k) ==
    d.items[CHOOSE i \in 1..Len(d.items) : d.items[i][1] = k][2]

\* the order of the key strings under Python's str comparison
KeyOrder ==
    <<"command", "description", "email", "enabled", "from", "host", "login",
      "notify", "port", "smtp", "subject", "timeout", "to">>

key_rank(k) == CHOOSE i \in 1..Len(KeyOrder) : KeyOrder[i] = k

\* sorted(obj.items()): the keys of a mapping are distinct, so the order
\* of the pairs is the order of their keys
RECURSIVE sorted_items(_)
sorted_items(items) ==
    IF items = <<>> THEN <<>>
    ELSE LET m == CHOOSE i \in 1..Len(items) :
                      \A j \in 1..Len(items) :
                          key_rank(items[i][1]) <= key_rank(items[j][1])
         IN  <<items[m]>> \o
             sorted_items([j \in 1..(Len(items) - 1) |->
                              IF j < m THEN items[j] ELSE items[j + 1]])

(***************************************************************************)
(* hashablize, get_hash                                                    *)
(***************************************************************************)
\* hash(obj) succeeds: obj is returned as it is
hashable(obj) == obj.type \in {"str", "tuple"}

RECURSIVE hashablize_raises(_)
hashablize_raises(obj) ==
    IF hashable(obj) THEN FALSE
    ELSE IF obj.type = "dict"
    THEN \E i \in 1..Len(obj.items) : hashablize_raises(obj.items[i][2])
    ELSE IF obj.type = "list"
    THEN \E i \in 1..Len(obj.elems) : hashablize_raises(obj.elems[i])
    ELSE TRUE

\* variant: a mapping is canonicalised to its sorted keys, tuple(sorted(obj))
RECURSIVE hashablize_keys_only(_)
hashablize_keys_only(obj) ==
    IF hashable(obj) THEN obj
    ELSE IF obj.type = "dict"
    THEN LET items == sorted_items(obj.items)
         IN  Tuple([i \in 1..Len(items) |-> Str(items[i][1])])
    ELSE Tuple([i \in 1..Len(obj.elems) |->
                   hashablize_keys_only(obj.elems[i])])

\* a pair (k, hashablize(v)) is a tuple of the key and the canonical value
RECURSIVE hashablize(_)
hashablize(obj) ==
    IF hashable(obj) THEN obj
    ELSE IF obj.type = "dict"
    THEN LET items == sorted_items(obj.items)
         IN  Tuple([i \in 1..Len(items) |->
                       Tuple(<<Str(items[i][1]), hashablize(items[i][2])>>)])
    ELSE Tuple([i \in 1..Len(obj.elems) |-> hashablize(obj.elems[i])])

\* pickle.dumps of a canonical form: a tuple is MARK, its elements, TUPLE;
\* a string is written in full and memoized under id(obj), and written as
\* a reference to the memo when the same object comes again. st is the
\* pickler: the bytes written and the memo
RECURSIVE save(_, _)
RECURSIVE save_all(_, _, _)
save(obj, st) ==
    IF obj.type = "str"
    THEN IF "id" \in DOMAIN obj /\ obj.id \in st.memo
         THEN [out |-> st.out \o <<"GET", obj.value>>, memo |-> st.memo]
         ELSE [out  |-> st.out \o <<"UNICODE", obj.value>>,
               memo |-> IF "id" \in DOMAIN obj
                        THEN st.memo \cup {obj.id} ELSE st.memo]
    ELSE LET r == save_all(obj.elems, 1,
                           [out |-> Append(st.out, "MARK"), memo |-> st.memo])
         IN  [out |-> Append(r.out, "TUPLE"), memo |-> r.memo]

save_all(elems, i, st) ==
    IF i > Len(elems) THEN st
    ELSE save_all(elems, i + 1, save(elems[i], st))

pickle_dumps(obj) == save(obj, [out |-> <<>>, memo |-> {}]).out

\* hashlib.sha1(data).hexdigest(): the digest stands for the bytes it was
\* computed from (two different byte strings have different digests)
sha1_hexdigest(bytes) == <<"sha1">> \o bytes

get_hash(item) ==
    IF hashablize_raises(item) THEN Raised("TypeError")
    ELSE Returned(sha1_hexdigest(pickle_dumps(hashablize(item))))

(***************************************************************************)
(* mailer: email_new, make_msg, make_html, send_email                      *)
(***************************************************************************)
\* __program__ of the package
program == "__program__"

RECURSIVE lstrip_chars(_, _)
lstrip_chars(s, chars) ==
    IF s # <<>> /\ Head(s) \in chars THEN lstrip_chars(Tail(s), chars) ELSE s

RECURSIVE rstrip_chars(_, _)
rstrip_chars(s, chars) ==
    IF s # <<>> /\ s[Len(s)] \in chars
    THEN rstrip_chars(SubSeq(s, 1, Len(s) - 1), chars)
    ELSE s

\* line.lstrip(' \t*').split()[0].strip('\'"'), cleaned: IndexError when
\* nothing is left of the line to split
first_field(line) ==
    LET fields == split(lstrip_chars(line, {" ", "\t", "*"}))
    IN  IF fields = <<>> THEN Raised("IndexError")
        ELSE Returned(clean(rstrip_chars(
                 lstrip_chars(fields[1], {"'", "\""}), {"'", "\""})))

\* the <p> of a Result: its description and a marked line for every item
html_paragraph(result) ==
    [description |-> result.description,
     lines |-> [i \in 1..Len(result.stdout) |->
                   <<IF result.stdout[i] \in result.new
                     THEN "+" ELSE "&nbsp;",
                     first_field(result.stdout[i]).value>>]]

RECURSIVE iter_html(_)
iter_html(rs) ==
    IF rs = <<>> THEN <<>>
    ELSE IF Head(rs).stdout # <<>>
    THEN <<html_paragraph(Head(rs))>> \o iter_html(Tail(rs))
    ELSE iter_html(Tail(rs))

make_html(rs) ==
    IF \E i \in 1..Len(rs) : \E j \in 1..Len(rs[i].stdout) :
           first_field(rs[i].stdout[j]).raised
    THEN Raised("IndexError")
    ELSE Returned(iter_html(rs))

make_msg(rs, email_config) ==
    LET html == make_html(rs)
    IN  IF html.raised THEN html
        ELSE IF ~({"from", "to"} \subseteq dict_keys(email_config))
        THEN Raised("KeyError")
        ELSE Returned(
            [Subject |-> IF "subject" \in dict_keys(email_config)
                         THEN dict_get(email_config, "subject").value
                         ELSE program,
             From    |-> dict_get(email_config, "from").value,
             To      |-> dict_get(email_config, "to").value,
             html    |-> html.value])

\* send_email: what is handed to mailer.sendmail, or the KeyError of a
\* configuration without smtp host and port
send_email(msg, email_config) ==
    IF /\ {"from", "to", "smtp"} \subseteq dict_keys(email_config)
       /\ dict_get(email_config, "smtp").type = "dict"
       /\ {"host", "port"} \subseteq dict_keys(dict_get(email_config, "smtp"))
    THEN Returned(<<[email_from |-> dict_get(email_config, "from").value,
                     email_to   |-> dict_get(email_config, "to").value,
                     msg        |-> msg]>>)
    ELSE Raised("KeyError")

\* email_config.get('enabled')
email_enabled(email_config) ==
    /\ "enabled" \in dict_keys(email_config)
    /\ dict_get(email_config, "enabled") = Bool(TRUE)

\* email_new returns nothing: the value here is the messages it has sent
email_new(rs, email_config) ==
    IF email_config.type # "dict" THEN Raised("AttributeError")
    ELSE IF /\ email_enabled(email_config)
            /\ \E i \in 1..Len(rs) : rs[i].new # {}
    THEN LET msg == make_msg(rs, email_config)
         IN  IF msg.raised THEN msg
             ELSE send_email(msg.value, email_config)
    ELSE Returned(<<>>)

SmtpConfig ==
    Dict(<<<<"host", Str("smtp.gmail.com")>>, <<"port", Number(587)>>>>)

EmailConfig(enabled) ==
    Dict(<<<<"enabled", Bool(enabled)>>,
           <<"from", Str("username@gmail.com")>>,
           <<"to", Str("username@gmail.com")>>,
           <<"subject", Str("updatewatch")>>,
           <<"smtp", SmtpConfig>>>>)

\* the email settings of the configuration file: as populate writes them,
\* enabled by the user, and without the enabled key
EmailConfigs ==
    {EmailConfig(FALSE), EmailConfig(TRUE),
     Dict(<<<<"from", Str("username@gmail.com")>>,
            <<"to", Str("username@gmail.com")>>,
            <<"smtp", SmtpConfig>>>>)}

(***************************************************************************)
(* The check lists of updates.yaml and what a check process may print      *)
(***************************************************************************)
Update(description, command) ==
    Dict(<<<<"description", Str(description)>>, <<"command", Str(command)>>>>)

UpdatesSystem == List(<<Update("system packages", "apt")>>)

\* two checks that share a description
UpdatesRuby ==
    List(<<Update("Ruby packages", "gem1.9"),
           Update("Ruby packages", "gem2.1")>>)

\* a check that carries a timeout
UpdatesTimeout ==
    List(<<Dict(<<<<"description", Str("system packages")>>,
                  <<"command", Str("apt")>>,
                  <<"timeout", Str("0.1s")>>>>)>>)

\* a tabular check
UpdatesNode == List(<<Update(NodeJsDescription, "npm")>>)

\* a compound command whose last part never exits on its own
UpdatesVagrant == List(<<Update("Vagrant boxes", "box; wait")>>)

\* a check whose description is an object that has no hash and no __iter__
UpdatesOpaque ==
    List(<<Dict(<<<<"description", Opaque("system packages")>>,
                  <<"command", Str("apt")>>>>)>>)

UpdatesFiles ==
    {UpdatesSystem, UpdatesRuby, UpdatesTimeout, UpdatesNode, UpdatesVagrant,
     UpdatesOpaque}

\* the configuration file of the runs: the defaults that populate writes,
\* with email enabled by the user
ConfigFiles ==
    {Dict(<<<<"email", EmailConfig(TRUE)>>,
            <<"notify", Dict(<<<<"enabled", Bool(FALSE)>>>>)>>>>)}

RawStdouts == {<<>>, <<"a", "\n">>, <<"a", "\n", "b", "\n">>}

Statuses == {0, 1}

Output(stdout, stderr, status) ==
    [stdout |-> stdout, stderr |-> stderr, status |-> status]

\* npm outdated: the header and an outdated row; the header and a junk row
NpmOutdated ==
    <<"P", "\n",
      "n", " ", "1", ".", "0", " ", "1", ".", "1", " ", "1", ".", "1", "\n">>

\* what a simple command may print and exit with when it ends by itself:
\* its items, a silent failure, or a failure with a message; none for a
\* command that never exits on its own
Outputs(command) ==
    IF command = "apt"
    THEN {out \in [stdout : RawStdouts, stderr : {<<>>, <<"E", "\n">>},
                   status : Statuses] :
             \/ out.stderr = <<>> /\ out.status = 0
             \/ Len(out.stdout) <= 2 /\ out.stderr # <<>> /\ out.status = 1
             \/ out.stdout = <<>> /\ out.stderr = <<>>}
    ELSE IF command = "gem1.9"
    THEN {Output(<<>>, <<>>, 0), Output(<<"a", "\n">>, <<>>, 0),
          Output(<<>>, <<"E", "\n">>, 1)}
    ELSE IF command = "gem2.1"
    THEN {Output(<<>>, <<>>, 0), Output(<<"a", "\n">>, <<>>, 0),
          Output(<<"a", "\n", "b", "\n">>, <<>>, 0),
          Output(<<>>, <<>>, 1)}
    ELSE IF command = "npm"
    THEN {Output(<<>>, <<>>, 0), Output(NpmOutdated, <<>>, 0),
          Output(<<"P", "\n", "j", "\n">>, <<>>, 0)}
    ELSE IF command = "box"
    THEN {Output(<<"a", "\n">>, <<>>, 0)}
    ELSE {}

\* what a simple command has printed when timeout(1) kills it: exit 124
KilledOutputs(command) ==
    IF command = "apt"
    THEN {Output(<<"a", "\n">>, <<"E", "\n">>, TimedOutStatus)}
    ELSE {Output(<<>>, <<>>, TimedOutStatus)}

\* bash: the simple commands of a command line, split at ';'
bash_list(command) ==
    IF command = "box; wait" THEN <<"box", "wait">> ELSE <<command>>

\* bash runs the simple commands one after the other: the output is the
\* outputs in a row, the exit status that of the last command
Then(first, rest) ==
    Output(first.stdout \o rest.stdout, first.stderr \o rest.stderr,
           rest.status)

RECURSIVE ListOutputs(_)
ListOutputs(list) ==
    IF Len(list) = 1 THEN Outputs(list[1])
    ELSE {Then(o1, o2) : o1 \in Outputs(list[1]),
                          o2 \in ListOutputs(Tail(list))}

(***************************************************************************)
(* main                                                                    *)
(***************************************************************************)
NoCall == [fn |-> "none"]

NoRet == [pending |-> FALSE, fn |-> "none"]

NoKey == <<>>

NoLast == [key |-> NoKey, results |-> <<>>, cached |-> <<>>]

NoError == "none"

NoOutput == Output(<<>>, <<>>, -1)

Locals ==
    /\ updates = List(<<>>)
    /\ procs = <<>>
    /\ outs = <<>>
    /\ exception = NoError
    /\ idx = 0
    /\ key = NoKey
    /\ existing = <<>>
    /\ results = <<>>
    /\ cur = <<>>
    /\ data = <<>>
    /\ returned = <<>>
    /\ options = [list |-> FALSE]
    /\ config_file = Dict(<<>>)
    /\ mailed = <<>>

Init ==
    /\ pc = "idle"
    /\ Locals
    /\ database = <<>>
    /\ runs = 0
    /\ last = NoLast
    /\ call = NoCall
    /\ ret = NoRet

N == Len(updates.elems)

description_of(i) == dict_get(updates.elems[i], "description").value

command_of(i) == dict_get(updates.elems[i], "command").value

\* execute(**u) binds the keys of u to (description, command)
binds(u) == dict_keys(u) = {"description", "command"}

\* main: options = parse_args(args); config_file = populate(...);
\* updates = get_updates(config_paths.updates)
GetUpdates ==
    /\ pc = "idle"
    /\ runs < MaxRuns
    /\ \E list \in BOOLEAN : options' = [list |-> list]
    /\ \E c \in ConfigFiles : config_file' = c
    /\ \E u \in UpdatesFiles : updates' = u
    /\ mailed' = <<>>
    /\ pc' = "check"
    /\ runs' = runs + 1
    /\ UNCHANGED <<procs, outs, exception, idx, key, existing, results, cur,
                   data, returned, database, last, call, ret>>

\* check: processes = [execute(**u) for u in updates]; a key that execute
\* does not take raises TypeError
CreateProcesses ==
    /\ pc = "check"
    /\ IF \A i \in 1..N : binds(updates.elems[i])
       THEN /\ procs' = [i \in 1..N |-> "created"]
            /\ outs' = [i \in 1..N |-> NoOutput]
            /\ idx' = 1
            /\ pc' = "starting"
            /\ exception' = exception
       ELSE /\ pc' = "crashed"
            /\ exception' = "TypeError: execute"
            /\ UNCHANGED <<procs, outs, idx>>
    /\ UNCHANGED <<updates, key, existing, results, cur, data, returned,
                   database, runs, last, call, ret, options, config_file,
                   mailed>>

\* variant: the loop that starts the processes ends after the first one
StartProcess_only_first ==
    /\ pc = "starting"
    /\ idx <= N
    /\ procs' = [procs EXCEPT ![idx] = "started"]
    /\ idx' = N + 1
    /\ UNCHANGED <<pc, updates, outs, exception, key, existing, results, cur,
                   data, returned, database, runs, last, call, ret, options,
                   config_file, mailed>>

\* check: next(process), up to the first yield of execute:
\* Popen('timeout 3m %s' % command, shell=True)
StartProcess ==
    /\ pc = "starting"
    /\ idx <= N
    /\ procs' = [procs EXCEPT ![idx] = "started"]
    /\ idx' = idx + 1
    /\ UNCHANGED <<pc, updates, outs, exception, key, existing, results, cur,
                   data, returned, database, runs, last, call, ret, options,
                   config_file, mailed>>

\* the process of a check ends by itself, whatever main is doing
ProcessExits ==
    /\ \E i \in 1..Len(procs) :
        /\ procs[i] = "started"
        /\ \E out \in ListOutputs(bash_list(command_of(i))) :
               outs' = [outs EXCEPT ![i] = out]
        /\ procs' = [procs EXCEPT ![i] = "exited"]
    /\ UNCHANGED <<pc, updates, exception, idx, key, existing, results, cur,
                   data, returned, database, runs, last, call, ret, options,
                   config_file, mailed>>

\* the three minutes of 'timeout 3m' are over while the process runs:
\* timeout kills the simple command it was given, the first of the command
\* line; bash goes on with the rest of the line
TimeoutExpires ==
    /\ \E i \in 1..Len(procs) :
        /\ procs[i] = "started"
        /\ LET list == bash_list(command_of(i))
           IN  \E killed \in KilledOutputs(list[1]) :
                   IF Len(list) = 1
                   THEN /\ outs' = [outs EXCEPT ![i] = killed]
                        /\ procs' = [procs EXCEPT ![i] = "exited"]
                   ELSE IF ListOutputs(Tail(list)) = {}
                   THEN /\ outs' = outs
                        /\ procs' = [procs EXCEPT ![i] = "overdue"]
                   ELSE /\ \E rest \in ListOutputs(Tail(list)) :
                               outs' = [outs EXCEPT ![i] = Then(killed, rest)]
                        /\ procs' = [procs EXCEPT ![i] = "exited"]
    /\ UNCHANGED <<pc, updates, exception, idx, key, existing, results, cur,
                   data, returned, database, runs, last, call, ret, options,
                   config_file, mailed>>

database_get(k) == IF k \in DOMAIN database THEN database[k] ELSE <<>>

\* main, options.list: reporters.show_all(results, notify) starts to pull
\* the Results
ShowAll ==
    /\ pc = "starting"
    /\ idx > N
    /\ options.list
    /\ pc' = "show_all"
    /\ idx' = 1
    /\ UNCHANGED <<updates, procs, outs, exception, key, existing, results,
                   cur, data, returned, database, runs, last, call, ret,
                   options, config_file, mailed>>

\* show_all: next(p) resumes execute (communicate, wait, make_result) and
\* the Result is displayed
ShowResult ==
    /\ pc = "show_all"
    /\ idx <= N
    /\ procs[idx] = "exited"
    /\ LET r == make_result(description_of(idx), outs[idx].stdout,
                            outs[idx].stderr, outs[idx].status)
       IN  IF r.raised
           THEN /\ pc' = "crashed"
                /\ exception' = "ValueError: make_result"
                /\ UNCHANGED <<results, idx>>
           ELSE /\ results' = Append(results, r.value)
                /\ idx' = idx + 1
                /\ pc' = pc
                /\ exception' = exception
    /\ procs' = [procs EXCEPT ![idx] = "awaited"]
    /\ UNCHANGED <<updates, outs, key, existing, cur, data, returned,
                   database, runs, last, call, ret, options, config_file,
                   mailed>>

\* variant: a value that cannot be canonicalised gets the empty key
OpenDatabase_default_key ==
    /\ pc = "starting"
    /\ idx > N
    /\ ~options.list
    /\ LET h == get_hash(updates)
       IN  /\ key' = IF h.raised THEN NoKey ELSE h.value
           /\ existing' = database_get(IF h.raised THEN NoKey ELSE h.value)
    /\ idx' = 1
    /\ pc' = "diff"
    /\ UNCHANGED <<updates, procs, outs, exception, results, cur, data,
                   returned, database, runs, last, call, ret, options,
                   config_file, mailed>>

\* main, without --list: get_data: shelve.open, key = get_hash(updates),
\* existing = database.get(key, [])
OpenDatabase ==
    /\ pc = "starting"
    /\ idx > N
    /\ ~options.list
    /\ LET h == get_hash(updates)
       IN  IF h.raised
           THEN /\ pc' = "crashed"
                /\ exception' = "TypeError: hashablize"
                /\ UNCHANGED <<key, existing, idx>>
           ELSE /\ key' = h.value
                /\ existing' = database_get(h.value)
                /\ idx' = 1
                /\ pc' = "diff"
                /\ exception' = exception
    /\ UNCHANGED <<updates, procs, outs, results, cur, data, returned,
                   database, runs, last, call, ret, options, config_file,
                   mailed>>

\* difference: zip_longest pulls next(p) from the generator of check, which
\* resumes execute: communicate and wait return when the process has
\* ended, then make_result
AwaitProcess ==
    /\ pc = "diff"
    /\ cur = <<>>
    /\ idx <= N
    /\ procs[idx] = "exited"
    /\ LET r == make_result(description_of(idx), outs[idx].stdout,
                            outs[idx].stderr, outs[idx].status)
       IN  IF r.raised
           THEN /\ pc' = "crashed"
                /\ exception' = "ValueError: make_result"
                /\ UNCHANGED <<cur, results>>
           ELSE /\ cur' = <<r.value>>
                /\ results' = Append(results, r.value)
                /\ pc' = pc
                /\ exception' = exception
    /\ procs' = [procs EXCEPT ![idx] = "awaited"]
    /\ UNCHANGED <<updates, outs, idx, key, existing, data, returned,
                   database, runs, last, call, ret, options, config_file,
                   mailed>>

\* variant: only the records that have something new are kept
CompareRecord_only_new ==
    /\ pc = "diff"
    /\ cur # <<>>
    /\ LET d == difference_record(
                    cur[1], paired_previous(results, existing, idx))
       IN  data' = IF d.new = {} THEN data ELSE Append(data, d)
    /\ cur' = <<>>
    /\ idx' = idx + 1
    /\ UNCHANGED <<pc, updates, procs, outs, exception, key, existing,
                   results, returned, database, runs, last, call, ret,
                   options, config_file, mailed>>

\* variant: the entry is written after every record that was compared
CompareRecord_shelves ==
    /\ pc = "diff"
    /\ cur # <<>>
    /\ data' = Append(data, difference_record(
                   cur[1], paired_previous(results, existing, idx)))
    /\ database' = [k \in DOMAIN database \cup {key} |->
                       IF k = key THEN data' ELSE database[k]]
    /\ cur' = <<>>
    /\ idx' = idx + 1
    /\ UNCHANGED <<pc, updates, procs, outs, exception, key, existing,
                   results, returned, runs, last, call, ret, options,
                   config_file, mailed>>

\* difference: the body of the loop for the pair pulled
CompareRecord ==
    /\ pc = "diff"
    /\ cur # <<>>
    /\ data' = Append(data, difference_record(
                   cur[1], paired_previous(results, existing, idx)))
    /\ cur' = <<>>
    /\ idx' = idx + 1
    /\ UNCHANGED <<pc, updates, procs, outs, exception, key, existing,
                   results, returned, database, runs, last, call, ret,
                   options, config_file, mailed>>

\* variant: the database is replaced by the entry of this run
Shelve_single_entry ==
    /\ pc = "diff"
    /\ cur = <<>>
    /\ idx > N
    /\ IF idx <= Len(existing)
       THEN /\ pc' = "crashed"
            /\ exception' = "TypeError: difference"
            /\ UNCHANGED <<database, returned>>
       ELSE /\ database' = [k \in {key} |-> data]
            /\ returned' = data
            /\ pc' = "done"
            /\ exception' = exception
    /\ UNCHANGED <<updates, procs, outs, idx, key, existing, results, cur,
                   data, runs, last, call, ret, options, config_file, mailed>>

\* variant: the database is written only when something is new
Shelve_if_new ==
    /\ pc = "diff"
    /\ cur = <<>>
    /\ idx > N
    /\ IF idx <= Len(existing)
       THEN /\ pc' = "crashed"
            /\ exception' = "TypeError: difference"
            /\ UNCHANGED <<database, returned>>
       ELSE /\ database' =
                   IF \E i \in 1..Len(data) : data[i].new # {}
                   THEN [k \in DOMAIN database \cup {key} |->
                            IF k = key THEN data ELSE database[k]]
                   ELSE database
            /\ returned' = data
            /\ pc' = "done"
            /\ exception' = exception
    /\ UNCHANGED <<updates, procs, outs, idx, key, existing, results, cur,
                   data, runs, last, call, ret, options, config_file, mailed>>

\* difference returns (or raises on a position that only old has);
\* get_data: database[key] = data; return data
Shelve ==
    /\ pc = "diff"
    /\ cur = <<>>
    /\ idx > N
    /\ IF idx <= Len(existing)
       THEN /\ pc' = "crashed"
            /\ exception' = "TypeError: difference"
            /\ UNCHANGED <<database, returned>>
       ELSE /\ database' = [k \in DOMAIN database \cup {key} |->
                               IF k = key THEN data ELSE database[k]]
            /\ returned' = data
            /\ pc' = "done"
            /\ exception' = exception
    /\ UNCHANGED <<updates, procs, outs, idx, key, existing, results, cur,
                   data, runs, last, call, ret, options, config_file, mailed>>

\* config_file.get('email')
email_of(config) ==
    IF "email" \in dict_keys(config) THEN dict_get(config, "email")
    ELSE NoneType

\* variant: show_all is not followed by sys.exit and main goes on with
\* get_data, whose results are used up
Exit_list_goes_on ==
    /\ \/ pc \in {"done", "crashed"}
       \/ pc = "show_all" /\ idx > N
    /\ pc' = "idle"
    /\ updates' = List(<<>>)
    /\ procs' = <<>>
    /\ outs' = <<>>
    /\ exception' = NoError
    /\ idx' = 0
    /\ key' = NoKey
    /\ existing' = <<>>
    /\ results' = <<>>
    /\ cur' = <<>>
    /\ data' = <<>>
    /\ returned' = <<>>
    /\ options' = [list |-> FALSE]
    /\ config_file' = Dict(<<>>)
    /\ LET sent == email_new(data, email_of(config_file))
       IN  mailed' = IF pc = "done" /\ ~sent.raised THEN sent.value ELSE <<>>
    /\ last' = IF pc = "done"
               THEN [key |-> key, results |-> results,
                     cached |-> [i \in 1..Len(existing) |->
                                    set(existing[i].stdout)]]
               ELSE last
    /\ LET h == get_hash(updates)
       IN  database' =
               IF pc = "show_all" /\ ~h.raised /\ database_get(h.value) = <<>>
               THEN [k \in DOMAIN database \cup {h.value} |->
                        IF k = h.value THEN <<>> ELSE database[k]]
               ELSE database
    /\ UNCHANGED <<runs, call, ret>>

\* main: after get_data, reporters.show_new(data) and
\* mailer.email_new(data, config_file.get('email')); then sys.exit(0), also
\* after show_all; or the exception ends the program
Exit ==
    /\ \/ pc \in {"done", "crashed"}
       \/ pc = "show_all" /\ idx > N
    /\ pc' = "idle"
    /\ updates' = List(<<>>)
    /\ procs' = <<>>
    /\ outs' = <<>>
    /\ exception' = NoError
    /\ idx' = 0
    /\ key' = NoKey
    /\ existing' = <<>>
    /\ results' = <<>>
    /\ cur' = <<>>
    /\ data' = <<>>
    /\ returned' = <<>>
    /\ options' = [list |-> FALSE]
    /\ config_file' = Dict(<<>>)
    /\ LET sent == email_new(data, email_of(config_file))
       IN  mailed' = IF pc = "done" /\ ~sent.raised THEN sent.value ELSE <<>>
    /\ last' = IF pc = "done"
               THEN [key |-> key, results |-> results,
                     cached |-> [i \in 1..Len(existing) |->
                                    set(existing[i].stdout)]]
               ELSE last
    /\ UNCHANGED <<database, runs, call, ret>>

Next ==
    \/ GetUpdates
    \/ CreateProcesses
    \/ StartProcess
    \/ ProcessExits
    \/ TimeoutExpires
    \/ ShowAll
    \/ ShowResult
    \/ OpenDatabase
    \/ AwaitProcess
    \/ CompareRecord
    \/ Shelve
    \/ Exit

Spec == Init /\ [][Next]_vars

(***************************************************************************)
(* difference as a function: any two lists of Results                      *)
(***************************************************************************)
Descriptions == {"system packages", "Ruby packages"}

Lines == {<<"a">>, <<"b">>}

StdoutLists == {<<>>, <<<<"a">>>>, <<<<"a">>, <<"b">>>>}

StderrLists == {<<>>, <<<<"E">>>>}

Headers == {None, [isNone |-> FALSE, line |-> <<"H">>]}

\* Results as make_result builds them (new is empty)
FreshResults ==
    [description : Descriptions, header : Headers, new : {{}},
     status : Statuses, stderr : StderrLists, stdout : StdoutLists]

\* Results as a cache entry holds them
StoredResults ==
    {r \in [description : Descriptions, header : Headers,
            new : SUBSET Lines, status : Statuses, stderr : StderrLists,
            stdout : StdoutLists] : r.new \subseteq set(r.stdout)}

\* lists of two records: one description, no header
PlainFresh == {r \in FreshResults :
                  r.description = "Ruby packages" /\ r.header = None}

PlainStored == {r \in StoredResults :
                   /\ r.description = "Ruby packages"
                   /\ r.header = None
                   /\ r.status = 0}

DifferenceCalls ==
    {[fn |-> "difference", new |-> n, old |-> o] :
        n \in {<<>>} \cup {<<r>> : r \in FreshResults},
        o \in {<<>>} \cup {<<r>> : r \in StoredResults}}
    \cup
    {[fn |-> "difference", new |-> <<n[1], n[2]>>, old |-> o] :
        n \in PlainFresh \X PlainFresh,
        o \in {<<r>> : r \in PlainStored}
              \cup {<<q[1], q[2]>> : q \in PlainStored \X PlainStored}}

InitDifference ==
    /\ pc = "function"
    /\ Locals
    /\ database = <<>>
    /\ runs = 0
    /\ last = NoLast
    /\ call \in DifferenceCalls
    /\ ret = [pending |-> TRUE, fn |-> "difference"]

CallDifference ==
    /\ call.fn = "difference"
    /\ ret.pending
    /\ ret' = [pending |-> FALSE, fn |-> "difference",
               out |-> difference(call.new, call.old)]
    /\ UNCHANGED <<pc, updates, procs, outs, exception, idx, key, existing,
                   results, cur, data, returned, database, runs, last, call,
                   options, config_file, mailed>>

NextDifference == CallDifference

SpecDifference == InitDifference /\ [][NextDifference]_vars

(***************************************************************************)
(* make_result as a function: any captured text, then the Result through  *)
(* two runs of difference (cold cache, then the next output of the check)  *)
(***************************************************************************)
\* lines a check may print: blank, padded, repeated
PrintedLines == {<<>>, <<" ">>, <<"a">>, <<" ", "a">>, <<"a", " ">>, <<"b">>}

RECURSIVE JoinLines(_)
JoinLines(lines) ==
    IF lines = <<>> THEN <<>>
    ELSE Head(lines) \o <<"\n">> \o JoinLines(Tail(lines))

RECURSIVE JoinFields(_)
JoinFields(fields) ==
    IF Len(fields) = 1 THEN fields[1]
    ELSE Head(fields) \o <<" ">> \o JoinFields(Tail(fields))

SeqsUpTo(S, n) == UNION {[1..k -> S] : k \in 0..n}

PrintedTexts == {JoinLines(ls) : ls \in SeqsUpTo(PrintedLines, MaxLines)}

\* rows of an 'npm outdated' table: package current wanted latest [location]
V10 == <<"1", ".", "0">>

V11 == <<"1", ".", "1">>

RowOutdated == JoinFields(<<<<"n">>, V10, V11, V11>>)

RowEqual == JoinFields(<<<<"q">>, V11, V11, V11>>)

RowNewer == JoinFields(<<<<"w">>, V11, V10, V11>>)

RowLocation == JoinFields(<<<<"r">>, V10, V11, V11, <<"l">>>>)

RowJunk == <<"j">>

RowBadVersion == JoinFields(<<<<"v">>, <<"x">>, V11, V11>>)

RowColoured ==
    <<"ESC", "3", "m", "c", "ESC", "9", "m", " ">>
    \o JoinFields(<<V10, <<"ESC", "2", "m">> \o V11 \o <<"ESC", "9", "m">>,
                    V11>>)

TableRows ==
    {RowOutdated, RowEqual, RowNewer, RowLocation, RowJunk, RowBadVersion,
     RowColoured}

TableTexts ==
    {<<>>}
    \cup {JoinLines(<<<<"ESC", "4", "m", "P", "ESC", "4", "m">>>> \o rows) :
             rows \in SeqsUpTo(TableRows, MaxLines - 1)}

ErrorTexts == {<<>>, <<"E", "\n">>, <<"\t", "E", "\n", "F", "\n", "\n">>}

\* what the check prints in the run after
NextOutputs ==
    {Output(<<>>, e, st) : e \in {<<>>, <<"E", "\n">>},
                            st \in {0, TimedOutStatus}}

MakeResultCalls ==
    {[fn |-> "make_result", description |-> "system packages",
      stdout |-> t, stderr |-> e, status |-> st, next |-> n] :
        t \in PrintedTexts, e \in ErrorTexts, st \in {0, 1, TimedOutStatus},
        n \in NextOutputs}
    \cup
    {[fn |-> "make_result", description |-> NodeJsDescription,
      stdout |-> t, stderr |-> <<>>, status |-> st, next |-> n] :
        t \in TableTexts, st \in {0, TimedOutStatus}, n \in NextOutputs}

InitMakeResult ==
    /\ pc = "function"
    /\ Locals
    /\ database = <<>>
    /\ runs = 0
    /\ last = NoLast
    /\ call \in MakeResultCalls
    /\ ret = [pending |-> TRUE, fn |-> "make_result"]

CallMakeResult ==
    /\ call.fn = "make_result"
    /\ ret.pending
    /\ ret' = [pending |-> FALSE, fn |-> "make_result", stage |-> "made",
               out |-> make_result(call.description, call.stdout,
                                   call.stderr, call.status)]
    /\ UNCHANGED <<pc, updates, procs, outs, exception, idx, key, existing,
                   results, cur, data, returned, database, runs, last, call,
                   options, config_file, mailed>>

\* the Result goes through difference on a cold cache and is shelved; the
\* next run builds the Result of call.next and compares it with the shelved
\* one
CallDifferenceTwice ==
    /\ call.fn = "make_result"
    /\ ~ret.pending
    /\ ret.stage = "made"
    /\ ~ret.out.raised
    /\ LET first  == difference(<<ret.out.value>>, <<>>).value
           again  == make_result(call.description, call.next.stdout,
                                 call.next.stderr, call.next.status).value
           second == difference(<<again>>, first).value
       IN  ret' = [pending |-> FALSE, fn |-> "make_result",
                   stage |-> "shelved", out |-> ret.out,
                   first |-> first[1], again |-> again,
                   second |-> second[1]]
    /\ UNCHANGED <<pc, updates, procs, outs, exception, idx, key, existing,
                   results, cur, data, returned, database, runs, last, call,
                   options, config_file, mailed>>

NextMakeResult ==
    \/ CallMakeResult
    \/ CallDifferenceTwice

SpecMakeResult == InitMakeResult /\ [][NextMakeResult]_vars

(***************************************************************************)
(* get_hash as a function: two objects, and the cache looked up with the   *)
(* digest of the second after an entry was stored under the digest of the  *)
(* first                                                                   *)
(***************************************************************************)
\* the value of an object, as == compares it: a mapping without the order
\* of insertion, a string without its identity
RECURSIVE value_of(_)
value_of(obj) ==
    IF obj.type = "dict"
    THEN [type  |-> "dict",
          items |-> {<<obj.items[i][1], value_of(obj.items[i][2])>> :
                        i \in 1..Len(obj.items)}]
    ELSE IF obj.type \in {"list", "tuple"}
    THEN [type  |-> obj.type,
          elems |-> [i \in 1..Len(obj.elems) |-> value_of(obj.elems[i])]]
    ELSE [type |-> obj.type, value |-> obj.value]

WithTimeout(u, t) == Dict(Append(u.items, <<"timeout", Str(t)>>))

\* the same mapping written with its keys the other way round
Reversed(u) ==
    Dict([i \in 1..Len(u.items) |-> u.items[Len(u.items) + 1 - i]])

\* description and command are one string object (an anchor and its alias)
SharedCheck ==
    Dict(<<<<"description", Shared("ab", 1)>>,
           <<"command", Shared("ab", 1)>>>>)

PlainChecks == {Update(d, c) : d \in {"ab", "cd"}, c \in {"ab", "ls"}}

HashChecks ==
    PlainChecks
    \cup {WithTimeout(Update("ab", "ab"), t) : t \in {"1s", "2s"}}
    \cup {WithTimeout(Update("cd", "ls"), "1s"),
          Reversed(Update("ab", "ab")), Reversed(Update("cd", "ab")),
          Reversed(WithTimeout(Update("ab", "ab"), "1s")), SharedCheck}

\* the check lists an edited list is compared with
FewChecks ==
    {Update("ab", "ab"), Update("ab", "ls"), Update("cd", "ab"),
     Reversed(Update("ab", "ab")), WithTimeout(Update("ab", "ab"), "1s"),
     SharedCheck}

HashLists == {List(l) : l \in SeqsUpTo(HashChecks, MaxChecks) \ {<<>>}}

FewLists == {List(l) : l \in SeqsUpTo(FewChecks, 2)}

HashCalls ==
    {[fn |-> "get_hash", item |-> a, other |-> b] :
        a \in HashLists, b \in FewLists}
    \cup
    {[fn |-> "get_hash", item |-> a, other |-> b] :
        a, b \in {Str("ab"), Str("cd"), Opaque("ab"),
                  List(<<Str("ab"), Str("cd")>>),
                  List(<<Str("cd"), Str("ab")>>),
                  List(<<Str("ab"), Opaque("ab")>>)}}

InitHash ==
    /\ pc = "function"
    /\ Locals
    /\ database = <<>>
    /\ runs = 0
    /\ last = NoLast
    /\ call \in HashCalls
    /\ ret = [pending |-> TRUE, fn |-> "get_hash"]

\* get_hash(item) and get_hash(other), with the canonical forms they take
\* the digest of
CallGetHash ==
    /\ call.fn = "get_hash"
    /\ ret.pending
    /\ ret' = [pending |-> FALSE, fn |-> "get_hash", stage |-> "hashed",
               out   |-> get_hash(call.item),
               other |-> get_hash(call.other),
               canon |-> IF hashablize_raises(call.item)
                         THEN <<>> ELSE <<hashablize(call.item)>>,
               other_canon |-> IF hashablize_raises(call.other)
                               THEN <<>> ELSE <<hashablize(call.other)>>]
    /\ UNCHANGED <<pc, updates, procs, outs, exception, idx, key, existing,
                   results, cur, data, returned, database, runs, last, call,
                   options, config_file, mailed>>

\* get_data: database[key] = data of a run with item; then, for other,
\* existing = database.get(key, [])
CallDatabaseGet ==
    /\ call.fn = "get_hash"
    /\ ~ret.pending
    /\ ret.stage = "hashed"
    /\ ~ret.out.raised
    /\ ~ret.other.raised
    /\ call.item.type = "list"
    /\ database' = [k \in {ret.out.value} |->
                       [i \in 1..Len(call.item.elems) |-> make_default]]
    /\ key' = ret.other.value
    /\ existing' = IF ret.other.value = ret.out.value
                   THEN [i \in 1..Len(call.item.elems) |-> make_default]
                   ELSE <<>>
    /\ ret' = [ret EXCEPT !.stage = "read"]
    /\ UNCHANGED <<pc, updates, procs, outs, exception, idx, results, cur,
                   data, returned, runs, last, call, options, config_file,
                   mailed>>

NextHash ==
    \/ CallGetHash
    \/ CallDatabaseGet

SpecHash == InitHash /\ [][NextHash]_vars

(***************************************************************************)
(* execute as a generator: a program in some working directory runs one    *)
(* check                                                                   *)
(***************************************************************************)
\* tempfile.gettempdir()
gettempdir == "/tmp"

\* pwd prints the working directory of its process
ProcessOutputs(command, directory) ==
    IF command = "pwd" THEN {Output(<<directory, "\n">>, <<>>, 0)}
    ELSE ListOutputs(bash_list(command))

\* cwd is os.getcwd() of the program when it is started
ExecuteCalls ==
    {[fn |-> "execute", description |-> "generic packages",
      command |-> c, cwd |-> d] :
        c \in {"pwd", "apt", "gem1.9", "gem2.1", "npm"},
        d \in {"/", "/tmp", "/home/user", "/home/user/project"}}

InitExecute ==
    /\ pc = "function"
    /\ Locals
    /\ database = <<>>
    /\ runs = 0
    /\ last = NoLast
    /\ call \in ExecuteCalls
    /\ ret = [pending |-> TRUE, fn |-> "execute", stage |-> "created"]

\* next(process), first time: Popen without cwd, the child process gets
\* the working directory of the program
Popen ==
    /\ call.fn = "execute"
    /\ ret.stage = "created"
    /\ ret' = [pending |-> TRUE, fn |-> "execute", stage |-> "started",
               directory |-> call.cwd]
    /\ UNCHANGED <<pc, updates, procs, outs, exception, idx, key, existing,
                   results, cur, data, returned, database, runs, last, call,
                   options, config_file, mailed>>

\* the process runs the command in its directory and ends
Exited ==
    /\ call.fn = "execute"
    /\ ret.stage = "started"
    /\ \E out \in ProcessOutputs(call.command, ret.directory) :
           ret' = [pending |-> TRUE, fn |-> "execute", stage |-> "exited",
                   directory |-> ret.directory, output |-> out]
    /\ UNCHANGED <<pc, updates, procs, outs, exception, idx, key, existing,
                   results, cur, data, returned, database, runs, last, call,
                   options, config_file, mailed>>

\* next(process), second time: communicate, wait, make_result
Communicate ==
    /\ call.fn = "execute"
    /\ ret.stage = "exited"
    /\ ret' = [pending |-> FALSE, fn |-> "execute", stage |-> "result",
               directory |-> ret.directory, output |-> ret.output,
               out |-> make_result(call.description, ret.output.stdout,
                                   ret.output.stderr, ret.output.status)]
    /\ UNCHANGED <<pc, updates, procs, outs, exception, idx, key, existing,
                   results, cur, data, returned, database, runs, last, call,
                   options, config_file, mailed>>

NextExecute ==
    \/ Popen
    \/ Exited
    \/ Communicate

SpecExecute == InitExecute /\ [][NextExecute]_vars

(***************************************************************************)
(* email_new as a function: Results and email settings                    *)
(***************************************************************************)
\* items as commands print them: a quoted name with a version, a starred
\* name, a rule of stars
MailedLines == {<<"'", "a", "'", " ", "1">>, <<"*", " ", "b">>, <<"*">>}

\* Results as get_data returns them: new is within stdout
MailedResults ==
    {[description |-> "system packages", header |-> None, new |-> n,
      status |-> 0, stderr |-> <<>>, stdout |-> o] :
        o \in SeqsUpTo(MailedLines, 2), n \in SUBSET MailedLines} \cap
    {r \in [description : {"system packages"}, header : {None},
            new : SUBSET MailedLines, status : {0}, stderr : {<<>>},
            stdout : SeqsUpTo(MailedLines, 2)] :
        /\ r.new \subseteq set(r.stdout)
        /\ Cardinality(r.new) <= 1}

EmailCalls ==
    {[fn |-> "email_new", results |-> rs, email_config |-> c] :
        rs \in SeqsUpTo(MailedResults, MaxResults), c \in EmailConfigs}

InitEmail ==
    /\ pc = "function"
    /\ Locals
    /\ database = <<>>
    /\ runs = 0
    /\ last = NoLast
    /\ call \in EmailCalls
    /\ ret = [pending |-> TRUE, fn |-> "email_new"]

CallEmailNew ==
    /\ call.fn = "email_new"
    /\ ret.pending
    /\ ret' = [pending |-> FALSE, fn |-> "email_new",
               out |-> email_new(call.results, call.email_config)]
    /\ UNCHANGED <<pc, updates, procs, outs, exception, idx, key, existing,
                   results, cur, data, returned, database, runs, last, call,
                   options, config_file, mailed>>

NextEmail == CallEmailNew

SpecEmail == InitEmail /\ [][NextEmail]_vars

(***************************************************************************)
(* configuration: merge, populate, yaml_dump, yaml_load                    *)
(***************************************************************************)
\* destination[key] = value
dict_set(d, k, v) ==
    IF k \in dict_keys(d)
    THEN Dict([i \in 1..Len(d.items) |->
                  IF d.items[i][1] = k THEN <<k, v>> ELSE d.items[i]])
    ELSE Dict(Append(d.items, <<k, v>>))

\* merge(source, destination), from the i-th item of source on: a mapping
\* is merged into the node of the destination, anything else is assigned;
\* a destination that is no mapping raises when an item is put into it
RECURSIVE merge_from(_, _, _)
merge_from(items, i, destination) ==
    IF i > Len(items) THEN Returned(destination)
    ELSE LET k == items[i][1]
             v == items[i][2]
         IN  IF destination.type # "dict"
             THEN Raised(IF v.type = "dict"
                         THEN "AttributeError" ELSE "TypeError")
             ELSE IF v.type = "dict"
             THEN LET node == IF k \in dict_keys(destination)
                              THEN dict_get(destination, k)
                              ELSE Dict(<<>>)
                      m    == merge_from(v.items, 1, node)
                  IN  IF m.raised THEN m
                      ELSE merge_from(items, i + 1,
                                      dict_set(destination, k, m.value))
             ELSE merge_from(items, i + 1, dict_set(destination, k, v))

merge(source, destination) ==
    IF source.type # "dict" THEN Raised("AttributeError")
    ELSE merge_from(source.items, 1, destination)

skeleton ==
    Dict(<<<<"email", EmailConfig(FALSE)>>, <<"notify", Bool(FALSE)>>>>)

\* yaml.safe_dump: a mapping is written with its keys sorted
RECURSIVE yaml_dump(_)
yaml_dump(obj) ==
    IF obj.type = "dict"
    THEN LET items == sorted_items(obj.items)
         IN  Dict([i \in 1..Len(items) |->
                      <<items[i][1], yaml_dump(items[i][2])>>])
    ELSE obj

\* a file: missing, or the document that is in it
NoFile == [exists |-> FALSE]

File(document) == [exists |-> TRUE, document |-> document]

\* populate(path) on the file at path: what it returns or raises, and the
\* file afterwards
populate(file) ==
    IF ~file.exists
    THEN [out |-> Returned(skeleton), file |-> File(yaml_dump(skeleton))]
    ELSE LET original == file.document
             merged   == merge(original, skeleton)
         IN  IF merged.raised THEN [out |-> merged, file |-> file]
             ELSE IF value_of(original) = value_of(merged.value)
             THEN [out |-> Returned(original), file |-> file]
             ELSE [out  |-> merged,
                   file |-> File(yaml_dump(merged.value))]

\* the email settings a user may have in the file
WrittenEmails ==
    {EmailConfig(FALSE), EmailConfig(TRUE),
     Dict(<<>>), Str("off"), Dict(<<<<"enabled", Bool(TRUE)>>>>),
     Dict(<<<<"enabled", Bool(FALSE)>>,
            <<"subject", Str("updates")>>>>),
     dict_set(EmailConfig(TRUE), "smtp",
              dict_set(SmtpConfig, "login", Str("username")))}

WrittenNotifys ==
    {Bool(FALSE), Bool(TRUE), Dict(<<<<"enabled", Bool(FALSE)>>>>),
     Dict(<<<<"enabled", Bool(TRUE)>>>>)}

\* the documents of the configuration file: with and without email and
\* notify, in either order, and the empty document
Documents ==
    {Dict(<<>>), NoneType}
    \cup {Dict(<<<<"email", e>>>>) : e \in WrittenEmails}
    \cup {Dict(<<<<"notify", n>>>>) : n \in WrittenNotifys}
    \cup {Dict(<<<<"email", e>>, <<"notify", n>>>>) :
             e \in WrittenEmails, n \in WrittenNotifys}
    \cup {Dict(<<<<"notify", n>>, <<"email", EmailConfig(FALSE)>>>>) :
             n \in WrittenNotifys}

PopulateCalls ==
    {[fn |-> "populate", file |-> f] :
        f \in {NoFile} \cup {File(d) : d \in Documents}}

InitPopulate ==
    /\ pc = "function"
    /\ Locals
    /\ database = <<>>
    /\ runs = 0
    /\ last = NoLast
    /\ call \in PopulateCalls
    /\ ret = [pending |-> TRUE, fn |-> "populate", stage |-> "start",
              file |-> call.file]

CallPopulate ==
    /\ call.fn = "populate"
    /\ ret.stage = "start"
    /\ ret' = [pending |-> FALSE, fn |-> "populate", stage |-> "returned",
               file |-> populate(ret.file).file,
               out  |-> populate(ret.file).out]
    /\ UNCHANGED <<pc, updates, procs, outs, exception, idx, key, existing,
                   results, cur, data, returned, database, runs, last, call,
                   options, config_file, mailed>>

\* populate is called again on the file the first call has left
CallPopulateAgain ==
    /\ call.fn = "populate"
    /\ ret.stage = "returned"
    /\ ret' = [pending |-> FALSE, fn |-> "populate", stage |-> "again",
               file  |-> populate(ret.file).file,
               out   |-> ret.out,
               before |-> ret.file,
               again |-> populate(ret.file).out]
    /\ UNCHANGED <<pc, updates, procs, outs, exception, idx, key, existing,
                   results, cur, data, returned, database, runs, last, call,
                   options, config_file, mailed>>

NextPopulate ==
    \/ CallPopulate
    \/ CallPopulateAgain

SpecPopulate == InitPopulate /\ [][NextPopulate]_vars

(***************************************************************************)
(* Properties                                                              *)
(***************************************************************************)
ErrorFree(r) == r.stderr = <<>> /\ r.status = 0

Failed(r) == ~ErrorFree(r)

DifferenceReturned ==
    /\ call.fn = "difference"
    /\ ~ret.pending
    /\ ~ret.out.raised

\* the record of old that zip_longest pairs with position i of the call
PreviousOfCall(i) ==
    IF i > Len(call.old) THEN make_default ELSE call.old[i]

NewOfCall(i) == set(call.new[i].stdout) \ set(PreviousOfCall(i).stdout)

FallbackOfCall(i) ==
    [PreviousOfCall(i) EXCEPT !.description = call.new[i].description,
                              !.new = {}]

\* C1: at every position difference keeps the current record, with new
\* attached, exactly when new is non-empty or the current record has an
\* empty stderr and status 0; otherwise it falls back to the previous record
C1_KeepsUnlessNothingNewAndError ==
    DifferenceReturned =>
        \A i \in 1..Len(call.new) :
            ret.out.value[i] =
                IF NewOfCall(i) # {} \/ ErrorFree(call.new[i])
                THEN [call.new[i] EXCEPT !.new = NewOfCall(i)]
                ELSE FallbackOfCall(i)

FellBack(i) == NewOfCall(i) = {} /\ call.new[i].stderr # <<>>

C3_FailureKeepsKnownItems ==
    pc = "done" =>
        /\ \A i \in 1..Len(existing) :
               (/\ Failed(results[i])
                /\ set(results[i].stdout) \subseteq set(existing[i].stdout))
               => /\ set(existing[i].stdout)
                         \subseteq set(database[key][i].stdout)
                  /\ database[key][i].new = {}
        /\ last.key = key =>
               \A i \in 1..Len(last.cached) :
                   (/\ Failed(last.results[i])
                    /\ set(last.results[i].stdout) \subseteq last.cached[i])
                   => returned[i].new \cap last.cached[i] = {}

\* C4: with an empty old list, difference of a one-element list [r] is
\* [r] with new = set(r.stdout), whatever the stderr and status of r
C4_ColdCacheYieldsCurrent ==
    (/\ call.fn = "difference"
     /\ ~ret.pending
     /\ call.old = <<>>
     /\ Len(call.new) = 1)
    => /\ ~ret.out.raised
       /\ ret.out.value =
              <<[call.new[1] EXCEPT !.new = set(call.new[1].stdout)]>>

\* C5: an error-free record compared with itself comes back with new
\* empty, and a run whose checks print what they printed in the run before
\* has new empty at every position
C5_UnchangedOutputNothingNew ==
    pc = "done" =>
        /\ \A i \in 1..Len(existing) :
               (/\ ErrorFree(results[i])
                /\ [existing[i] EXCEPT !.new = {}] = results[i])
               => returned[i] = results[i]
        /\ (last.key = key /\ last.results = results) =>
               \A i \in 1..Len(returned) : returned[i].new = {}

C5_Witness ==
    /\ pc = "done"
    /\ last.key = key
    /\ last.results = results
    /\ Len(results) = 2
    /\ \E i \in 1..Len(results) :
           /\ results[i].stdout # <<>>
           /\ ErrorFree(results[i])
           /\ existing[i].new # {}
           /\ [existing[i] EXCEPT !.new = {}] = results[i]
           /\ returned[i].new = {}
    /\ \E i \in 1..Len(results) : Failed(results[i])

\* C6: where the current record is kept, new is the items of its stdout
\* that are not in the stdout of the previous record at the same index,
\* also when several records share a description
C6_NewIsDiffAtSameIndex ==
    DifferenceReturned =>
        \A i \in 1..Len(call.new) :
            ~FellBack(i) =>
                /\ ret.out.value[i].stdout = call.new[i].stdout
                /\ ret.out.value[i].new =
                       set(call.new[i].stdout) \
                       set((IF i > Len(call.old) THEN make_default
                            ELSE call.old[i]).stdout)

C6_Witness ==
    /\ DifferenceReturned
    /\ Len(call.new) = 2
    /\ Len(call.old) = 2
    /\ call.new[1].description = call.new[2].description
    /\ call.old[1].description = call.new[1].description
    /\ call.old[2].description = call.new[1].description
    /\ call.old[1].stdout = <<<<"a">>, <<"b">>>>
    /\ call.old[2].stdout = <<<<"a">>>>
    /\ call.new[2].stdout = <<<<"a">>, <<"b">>>>
    /\ ret.out.value[2].new = {<<"b">>}

\* C7: every Result that get_data returned and every Result in the
\* database has new within the items of its stdout
C7_NewWithinStdout ==
    /\ \A k \in DOMAIN database :
           \A i \in 1..Len(database[k]) :
               database[k][i].new \subseteq set(database[k][i].stdout)
    /\ \A i \in 1..Len(returned) :
           returned[i].new \subseteq set(returned[i].stdout)

C7_Witness ==
    /\ pc = "done"
    /\ Len(existing) = 2
    /\ returned[1].new = {}
    /\ returned[1] # results[1]
    /\ returned[2].new = {<<"b">>}
    /\ returned[2].stdout = <<<<"a">>, <<"b">>>>

\* C8: a current record without stdout that has failed (status non-zero
\* or stderr non-empty) gives a record with the description, status and
\* stderr of the current record, the stdout of the previous, and new empty
C8_FailureCarriesCurrentError ==
    DifferenceReturned =>
        \A i \in 1..Len(call.new) :
            (/\ i <= Len(call.old)
             /\ call.new[i].stdout = <<>>
             /\ Failed(call.new[i]))
            => /\ ret.out.value[i].description = call.new[i].description
               /\ ret.out.value[i].status = call.new[i].status
               /\ ret.out.value[i].stderr = call.new[i].stderr
               /\ ret.out.value[i].stdout = call.old[i].stdout
               /\ ret.out.value[i].new = {}

\* C9: when get_data has returned, the database holds under the key of
\* the check list exactly the list that was returned, the reconciled one
C9_ShelvedIsReturned ==
    pc = "done" =>
        /\ key = get_hash(updates).value
        /\ key \in DOMAIN database
        /\ database[key] = returned
        /\ returned = data
        /\ Len(returned) = N

C9_Witness ==
    /\ pc = "done"
    /\ existing # <<>>
    /\ \A i \in 1..Len(returned) : returned[i].new = {}
    /\ database[key] = returned
    /\ database[key] # existing

\* C10: when a check process is awaited, the processes of all the checks
\* of the list have been started
C10_AllStartedBeforeAnyAwaited ==
    \A i \in 1..Len(procs) :
        procs[i] = "awaited" =>
            \A j \in 1..Len(procs) : procs[j] # "created"

C10_Witness ==
    /\ Len(procs) = 2
    /\ procs[1] = "awaited"
    /\ procs[2] = "started"
    /\ pc = "diff"

\* the lines make_result is to hold for a captured text
LinesOf(text) == splitlines(strip(text))

\* C11: no check aborts the batch: main is not ended by an exception of
\* execute or make_result, and the Results pulled from check are those of
\* the checks in definition order, each with the description of its check
\* and the exit status and stderr lines of its process
C11_OneResultPerCheck ==
    /\ exception \notin {"TypeError: execute", "ValueError: make_result"}
    /\ \A i \in 1..Len(results) :
           /\ results[i].description = description_of(i)
           /\ results[i].status = outs[i].status
           /\ SubSeq(results[i].stderr, 1, Len(LinesOf(outs[i].stderr)))
                  = LinesOf(outs[i].stderr)

\* C12: a check process does not run on after its timeout has expired:
\* the timeout ends the whole command line, also a compound one
C12_TimeoutEndsWholeCommand ==
    \A i \in 1..Len(procs) : procs[i] # "overdue"

\* C13: a check list whose checks carry a timeout is executed: execute
\* takes the timeout and main is not ended by the TypeError of the call
C13_TimeoutKeyIsTaken ==
    (\E i \in 1..N : "timeout" \in dict_keys(updates.elems[i]))
    => exception # "TypeError: execute"

Made == call.fn = "make_result" /\ ~ret.pending

MadeResult == Made /\ ~ret.out.raised

Count(line, lines) == Cardinality({i \in 1..Len(lines) : lines[i] = line})

\* the timeout line is in the stderr of a record once, at the end, when
\* its status is 124, and not at all otherwise
TimeoutLineOnce(rec) ==
    IF rec.status = TimedOutStatus
    THEN /\ Count(TimedOutLine, rec.stderr) = 1
         /\ rec.stderr[Len(rec.stderr)] = TimedOutLine
    ELSE Count(TimedOutLine, rec.stderr) = 0

\* C14: make_result appends the timeout line once, after the captured
\* stderr lines, when the status is 124 and appends nothing otherwise; the
\* record has the line once still after difference kept it or restored it
\* from the cache
C14_TimeoutLineAppendedOnce ==
    /\ MadeResult =>
           /\ ret.out.value.stderr =
                  LinesOf(call.stderr)
                  \o (IF call.status = TimedOutStatus
                      THEN <<TimedOutLine>> ELSE <<>>)
           /\ TimeoutLineOnce(ret.out.value)
    /\ (MadeResult /\ ret.stage = "shelved") =>
           /\ TimeoutLineOnce(ret.first)
           /\ TimeoutLineOnce(ret.second)

C14_Witness ==
    /\ MadeResult
    /\ ret.stage = "shelved"
    /\ call.status = TimedOutStatus
    /\ LinesOf(call.stderr) = <<<<"E">>, <<"F">>>>
    /\ call.next.status = TimedOutStatus
    /\ call.next.stderr # <<>>
    /\ ret.second.stderr = <<<<"E">>, <<"F">>, TimedOutLine>>
    /\ ret.second.stderr # ret.again.stderr

StrippedLine(line) ==
    /\ line # <<>>
    /\ line[1] \notin Whitespace
    /\ line[Len(line)] \notin Whitespace

C16_StdoutHasNoRepeatedLine ==
    MadeResult =>
        \A i, j \in 1..Len(ret.out.value.stdout) :
            ret.out.value.stdout[i] = ret.out.value.stdout[j] => i = j

CountNewlines(text) == Cardinality({i \in 1..Len(text) : text[i] = "\n"})

\* C16: the stdout list of a non-tabular check has one entry for every
\* line of the stripped output, repeated lines included
C16_StdoutKeepsEveryLine ==
    (MadeResult /\ call.description # NodeJsDescription) =>
        Len(ret.out.value.stdout) =
            IF strip(call.stdout) = <<>> THEN 0
            ELSE CountNewlines(strip(call.stdout)) + 1

C16_Witness ==
    /\ MadeResult
    /\ call.description # NodeJsDescription
    /\ ret.out.value.stdout = <<<<"a">>, <<"b">>, <<"a">>>>

TableCall == Made /\ call.description = NodeJsDescription

TableLines == LinesOf(call.stdout)

FieldsOf(row) == split(clean(row))

\* package current wanted latest [location], the versions parseable
WellFormedRow(row) ==
    /\ Len(FieldsOf(row)) \in {4, 5}
    /\ StrictVersion(FieldsOf(row)[2]).valid
    /\ StrictVersion(FieldsOf(row)[3]).valid

OutdatedRow(row) ==
    /\ WellFormedRow(row)
    /\ VersionLess(StrictVersion(FieldsOf(row)[2]),
                   StrictVersion(FieldsOf(row)[3]))

HeaderAndOutdatedRows ==
    /\ ~ret.out.raised
    /\ ret.out.value.header = [isNone |-> FALSE, line |-> TableLines[1]]
    /\ ret.out.value.stdout = SelectSeq(Tail(TableLines), OutdatedRow)

\* C17: a header followed by well-formed rows gives header = the first
\* line and stdout = the rows with current < wanted, in order, unmodified
C17_TableKeepsOutdatedRows ==
    (/\ TableCall
     /\ Len(TableLines) >= 2
     /\ \A i \in 2..Len(TableLines) : WellFormedRow(TableLines[i]))
    => HeaderAndOutdatedRows

\* C18: a malformed row is dropped without an error: the header is set
\* and the other rows are filtered as usual
C18_MalformedRowIsDropped ==
    (/\ TableCall
     /\ Len(TableLines) >= 2
     /\ \E i \in 2..Len(TableLines) : ~WellFormedRow(TableLines[i]))
    => HeaderAndOutdatedRows

\* C19: a well-formed row with a location is filtered by current < wanted
\* like a row without one: it is in stdout when it is outdated
C19_LocationIsOptional ==
    (/\ TableCall
     /\ Len(TableLines) >= 2
     /\ \A i \in 2..Len(TableLines) : WellFormedRow(TableLines[i]))
    => \A i \in 2..Len(TableLines) :
           Len(FieldsOf(TableLines[i])) = 5 =>
               /\ ~ret.out.raised
               /\ OutdatedRow(TableLines[i])
                      <=> TableLines[i] \in set(ret.out.value.stdout)

\* C20: empty stdout gives header None and stdout []; the header line
\* alone gives header = that line and stdout []
C20_TableEdgeCases ==
    TableCall =>
        /\ Len(TableLines) = 0 =>
               /\ ~ret.out.raised
               /\ ret.out.value.header = None
               /\ ret.out.value.stdout = <<>>
        /\ Len(TableLines) = 1 =>
               /\ ~ret.out.raised
               /\ ret.out.value.header =
                      [isNone |-> FALSE, line |-> TableLines[1]]
               /\ ret.out.value.stdout = <<>>

Hashed == call.fn = "get_hash" /\ ~ret.pending

\* a list of mappings with description, command and optional timeout
IsCheckList(obj) ==
    /\ obj.type = "list"
    /\ \A i \in 1..Len(obj.elems) :
           /\ obj.elems[i].type = "dict"
           /\ {"description", "command"} \subseteq dict_keys(obj.elems[i])
           /\ dict_keys(obj.elems[i])
                  \subseteq {"description", "command", "timeout"}

\* C21: equal values have the same digest, whatever the order in which
\* the keys of a mapping were inserted; two sequences with the same
\* elements in a different order have different canonical forms and
\* different digests
C21_HashIsCanonical ==
    (Hashed /\ ~ret.out.raised /\ ~ret.other.raised) =>
        /\ value_of(call.item) = value_of(call.other)
               => ret.out.value = ret.other.value
        /\ (/\ call.item.type = "list"
            /\ call.other.type = "list"
            /\ Len(call.item.elems) = Len(call.other.elems)
            /\ value_of(call.item) # value_of(call.other)
            /\ \A i \in 1..Len(call.item.elems) :
                   Count(value_of(call.item.elems[i]),
                         value_of(call.item).elems)
                   = Count(value_of(call.item.elems[i]),
                           value_of(call.other).elems))
               => /\ value_of(ret.canon[1]) # value_of(ret.other_canon[1])
                  /\ ret.out.value # ret.other.value

\* C22: two check lists that differ in a command, a description, a
\* timeout or the order of their elements have different canonical forms
\* and different digests, and the entry stored for the one is not read
\* for the other
C22_EditedListHasOtherKey ==
    (/\ Hashed
     /\ IsCheckList(call.item)
     /\ IsCheckList(call.other)
     /\ value_of(call.item) # value_of(call.other))
    => /\ value_of(ret.canon[1]) # value_of(ret.other_canon[1])
       /\ ret.out.value # ret.other.value
       /\ ret.stage = "read" => existing = <<>>

C22_Witness ==
    /\ Hashed
    /\ ret.stage = "read"
    /\ IsCheckList(call.item)
    /\ IsCheckList(call.other)
    /\ Len(call.item.elems) = 2
    /\ Len(call.other.elems) = 2
    /\ value_of(call.item.elems[1]) = value_of(call.other.elems[2])
    /\ value_of(call.item.elems[2]) = value_of(call.other.elems[1])
    /\ dict_get(call.item.elems[1], "command")
           # dict_get(call.item.elems[2], "command")
    /\ existing = <<>>
    /\ database # <<>>

\* C23: every check process has the temp directory as its working
\* directory, wherever the program was started: a check whose command is
\* pwd reports the temp directory
C23_RunsInTempDirectory ==
    call.fn = "execute" =>
        /\ ret.stage \in {"started", "exited", "result"}
               => ret.directory = gettempdir
        /\ (ret.stage = "result" /\ call.command = "pwd")
               => /\ ~ret.out.raised
                  /\ ret.out.value.stdout = <<<<gettempdir>>>>

Emailed == call.fn = "email_new" /\ ~ret.pending

SentCount == IF ret.out.raised THEN 0 ELSE Len(ret.out.value)

\* C24: email_new sends one message when email is enabled and a Result
\* has something new, and none when email is disabled or nothing is new
C24_OneMessageIfEnabledAndNew ==
    Emailed =>
        SentCount =
            IF /\ email_enabled(call.email_config)
               /\ \E i \in 1..Len(call.results) : call.results[i].new # {}
            THEN 1 ELSE 0

\* C25: when the check definitions hold a value that cannot be
\* canonicalised, the fingerprint fails in get_data, the error reaches the
\* caller and leaves nothing returned, and no step of that run writes or
\* modifies an entry of the database
C25_UnhashableWritesNothing ==
    [][/\ (database' # database \/ returned' # <<>>) =>
              ~get_hash(updates).raised
       /\ (/\ pc = "starting" /\ idx > N /\ ~options.list /\ pc' # pc
           /\ get_hash(updates).raised) =>
              /\ pc' = "crashed"
              /\ exception' = "TypeError: hashablize"
              /\ key' = NoKey]_vars

C25_Witness ==
    /\ pc = "crashed"
    /\ exception = "TypeError: hashablize"
    /\ get_hash(updates).raised
    /\ database # <<>>

Populated == call.fn = "populate" /\ ~ret.pending

\* the default keys: the email settings and notify: {enabled: false}
HasEmailDefaults(doc) ==
    /\ doc.type = "dict"
    /\ "email" \in dict_keys(doc)
    /\ dict_get(doc, "email").type = "dict"
    /\ {"enabled", "from", "to", "subject", "smtp"}
           \subseteq dict_keys(dict_get(doc, "email"))
    /\ dict_get(dict_get(doc, "email"), "smtp").type = "dict"
    /\ {"host", "port"}
           \subseteq dict_keys(dict_get(dict_get(doc, "email"), "smtp"))

HasNotifyDefault(doc) ==
    /\ doc.type = "dict"
    /\ "notify" \in dict_keys(doc)
    /\ dict_get(doc, "notify").type = "dict"
    /\ "enabled" \in dict_keys(dict_get(doc, "notify"))

HasDefaults(doc) == HasEmailDefaults(doc) /\ HasNotifyDefault(doc)

\* C26: populate returns the configuration with every default present:
\* for a missing file it writes the defaults and returns them; for a file
\* that has every default key it returns the content of the file, without
\* raising and without writing; a second call returns what the first did
C26_PopulateReturnsDefaults ==
    Populated =>
        /\ ~call.file.exists =>
               /\ ~ret.out.raised
               /\ HasDefaults(ret.out.value)
               /\ ret.stage = "returned" =>
                      /\ ret.file.exists
                      /\ value_of(ret.file.document) = value_of(ret.out.value)
        /\ (call.file.exists /\ HasDefaults(call.file.document)) =>
               /\ ~ret.out.raised
               /\ value_of(ret.out.value) = value_of(call.file.document)
               /\ ret.stage = "returned" => ret.file = call.file
        /\ ret.stage = "again" =>
               /\ ret.again.raised = ret.out.raised
               /\ ~ret.out.raised =>
                      value_of(ret.again.value) = value_of(ret.out.value)

\* C27 as stated: in a run without --list the key is computed and the entry
\* is read before any process of a check is started, and the entry is
\* written only after every check has been awaited
C27_KeyBeforeProcesses ==
    ~options.list =>
        /\ (\E i \in 1..Len(procs) : procs[i] # "created") => key # NoKey
        /\ pc = "done" => \A i \in 1..Len(procs) : procs[i] = "awaited"

\* C27, amended: in a run without --list every process is started first;
\* then the key is computed and the entry under it is read, once, before
\* any check is awaited; then the checks are awaited and compared one by
\* one; the entry is written once, after every check has been awaited
C27_StartKeyAwaitWrite ==
    [][~options.list =>
           /\ key' # key /\ key' # NoKey =>
                  /\ Len(procs) = N
                  /\ \A i \in 1..N : procs[i] \notin {"created", "awaited"}
                  /\ existing' = database_get(key')
           /\ existing' # existing => key = NoKey \/ pc' = "idle"
           /\ (key # NoKey /\ pc' # "idle") => key' = key
           /\ (\E i \in DOMAIN procs \cap DOMAIN procs' :
                   procs'[i] = "awaited" /\ procs[i] # "awaited")
                  => key # NoKey
           /\ database' # database =>
                  /\ Len(procs) = N
                  /\ \A i \in 1..N : procs[i] = "awaited"
                  /\ Len(data) = N
                  /\ database'[key] = data
                  /\ pc = "diff" /\ pc' = "done"
           /\ pc = "done" => database' = database]_vars

C27_Witness ==
    /\ pc = "done"
    /\ ~options.list
    /\ N = MaxChecks
    /\ existing # <<>>
    /\ database[key] # existing

\* C28: whatever lists of checks the runs so far had, the entry stored
\* under the key of a list of checks has one record per check of the list,
\* the record at a position carrying the description of the check at that
\* position; so the list a run reads is never longer than its own results
C28_EntryMatchesCheckList ==
    [][/\ database' # database =>
              \A u \in UpdatesFiles :
                  LET h == get_hash(u)
                  IN  (~h.raised /\ h.value \in DOMAIN database') =>
                      LET entry == database'[h.value]
                      IN  /\ Len(entry) = Len(u.elems)
                          /\ \A i \in 1..Len(entry) :
                                 entry[i].description =
                                     dict_get(u.elems[i], "description").value
       /\ pc' \in {"diff", "done"} => Len(existing') <= Len(updates'.elems)
       /\ pc' = "done" => Len(existing') <= Len(returned')]_vars

C28_Witness ==
    /\ pc = "done"
    /\ N = MaxChecks
    /\ Len(existing) = N
    /\ \E k \in DOMAIN database :
           k # key /\ Len(database[k]) # N

\* C29: a run changes only the entry under the key of its own list of
\* checks: every other entry stays, with its content; so a run for a list
\* that was edited and then reverted reads the entry last stored for it
C29_OtherEntriesUntouched ==
    [][/\ \A k \in DOMAIN database :
              /\ k \in DOMAIN database'
              /\ database'[k] # database[k] =>
                     /\ ~get_hash(updates).raised
                     /\ k = get_hash(updates).value
       /\ DOMAIN database' \subseteq DOMAIN database \cup {key}
       /\ (pc = "starting" /\ pc' = "diff") =>
              existing' = database_get(get_hash(updates).value)]_vars

\* the third run is for the list of the first one, after a run for
\* another list, and reads what the first run stored
C29_Witness ==
    /\ pc = "diff"
    /\ runs = 3
    /\ last.key # key
    /\ last.key \in DOMAIN database
    /\ existing # <<>>
    /\ \E i \in 1..Len(existing) : existing[i].stdout # <<>>

\* C30: a run with --list starts the checks, awaits them and displays
\* their Results, and it neither computes a key nor reads or writes the
\* database nor sends a message: the database and what the last run
\* without --list left are the same after the run as before it
C30_ListLeavesDatabaseAlone ==
    [][options.list =>
           /\ database' = database
           /\ key' = NoKey
           /\ existing' = <<>>
           /\ data' = <<>>
           /\ mailed' = <<>>
           /\ last' = last
           /\ pc' = "idle" =>
                  \/ pc = "crashed"
                  \/ /\ Len(results) = N
                     /\ \A i \in 1..N : procs[i] = "awaited"]_vars

C30_Witness ==
    /\ options.list
    /\ pc = "show_all"
    /\ idx > N
    /\ N = MaxChecks
    /\ \E i \in 1..N : results[i].stdout # <<>>
    /\ database # <<>>
    /\ email_enabled(email_of(config_file))

====
